---- MODULE Spec2Model ----
(***************************************************************************)
(* Behaviour layer of the SPIF website.  The repository holds two          *)
(* revisions of the same DOMContentLoaded script:                          *)
(*   "main"    src/js/main.js        scroll-event sticky header,           *)
(*                                   increment-based counters              *)
(*   "part000" src/unnamed/part_000  sentinel (IntersectionObserver)       *)
(*                                   sticky header, timestamp counters     *)
(* The variable `variant` says which of the two the page has loaded.       *)
(* The host (browser) is modelled by the actions that deliver events:      *)
(* DOMContentLoaded, clicks, scroll events, intersection changes, observer *)
(* callbacks and animation frames.                                         *)
(***************************************************************************)
EXTENDS Integers, Sequences, FiniteSets, TLC

(* ------------------------------ bounds -------------------------------- *)
\* clicks on the theme toggle followed in one run
MaxThemeClicks == 4
\* largest vertical scroll offset the host reports
MaxScrollY == 12
\* scroll events followed in one run
MaxScrollEvents == 2
\* entries an observer can hold queued before its callback runs
MaxBatch == 3
\* clicks on the mobile menu's controls followed in one run
MaxMenuClicks == 4
\* links inside the desktop navigation
MaxNavLinks == 2
\* slides inside the carousel track
MaxSlides == 3
\* clicks on the carousel's buttons followed in one run
MaxCarouselClicks == 4

(* ------------------------- program constants -------------------------- *)
stickyPoint == 10
\* const duration = 2000 (milliseconds)
duration == 2000
\* main.js: increment = target / (duration / 16)
frameMs == 16

Variants == {"main", "part000"}

\* JavaScript null: localStorage.getItem / getAttribute on a missing key
NULL == "<null>"
\* what the 'theme' key can hold when the page loads: nothing, the empty
\* string, the two themes, or a string some other script left there
StoredValues == {NULL, "", "light", "dark", "blue"}
\* data-theme as the markup may set it before the script runs
MarkupThemes == {NULL, "light"}

VARIABLES
    variant,            \* which revision of the script the page loads
    ready,              \* DOMContentLoaded handler has run
    initOrder,          \* order in which the handler calls the initializers
    initsCompleted,     \* history: initializers that returned normally
    raised,             \* an exception left the DOMContentLoaded handler
    \* --- tagged elements of the desktop navigation and their copies
    navReveals,         \* the navigation holds a .scroll-animate element
    navCounters,        \* the navigation holds a .impact-card__number element
    observedReveals,    \* reveal observer's targets in navigation and overlay
    observedCounters,   \* counter observer's targets in navigation and overlay
    \* --- theme controller
    themeTogglePresent, \* document has #theme-toggle
    systemPrefersDark,  \* matchMedia('(prefers-color-scheme: dark)').matches
    stored,             \* localStorage['theme'] (NULL when absent)
    dataTheme,          \* documentElement data-theme attribute (NULL when absent)
    themeListener,      \* click listener registered on #theme-toggle
    storedAtLoad,       \* history: stored as it was when the page loaded
    themeTrace,         \* history: data-theme after init and after each click
    \* --- sticky header
    headerPresent,      \* document has #page-header-inner
    sentinelPresent,    \* document has #header-observer-sentinel
    scrollY,            \* window.scrollY
    headerSticky,       \* header.classList contains 'is-sticky'
    scrollListener,     \* scroll listener registered on window
    scrollEvents,       \* history: scroll events dispatched since init
    sentinelIntersecting, \* the sentinel is in the viewport now
    sentinelObserved,   \* observer.observe(sentinel) has been called
    sentinelQueue,      \* entries queued for the header observer (isIntersecting)
    \* --- scroll-reveal controller (one .scroll-animate element)
    revealPresent,      \* document has a .scroll-animate element
    revealVisible,      \* the element is intersecting the viewport now
    revealObserved,     \* the element is among the observer's targets
    revealQueue,        \* entries queued for the reveal observer (isIntersecting)
    revealAnimated,     \* element.classList contains 'is-animated'
    revealRuns,         \* history: times the callback processed the element
    \* --- counter controller (one .impact-card__number element)
    counterPresent,     \* document has a .impact-card__number element
    counterVisible,     \* the element is intersecting the viewport now
    counterObserved,    \* the element is among the observer's targets
    counterQueue,       \* entries queued for the counter observer (isIntersecting)
    counterText,        \* counter.innerText, a sequence of characters
    originalText,       \* history: counter.innerText in the markup
    locale,             \* the host's default locale (toLocaleString())
    rafQueue,           \* callbacks requestAnimationFrame holds for the next frame
    now,                \* timestamp of the latest animation frame
    counterRuns,        \* history: times the callback processed the element
    counterDone,        \* history: the animations that rendered their final text
    \* --- mobile navigation
    menuTogglePresent,  \* document has #page-open-mobile-menu
    desktopNavPresent,  \* document has .navigation .menu__container
    navLinks,           \* <a> elements inside the desktop navigation
    overlayCount,       \* #page-mobile-main-menu elements in the document
    overlayLinks,       \* <a> elements inside the overlay
    closeButtons,       \* .page-close-mobile-menu elements inside the overlay
    closeListener,      \* click listener registered on the close button
    linkListeners,      \* click listeners registered on the overlay's links
    menuListener,       \* click listener registered on #page-open-mobile-menu
    bodyOpen,           \* body.classList contains 'mobile-menu-is-open'
    menuClicks,         \* history: clicks on the menu's controls since init
    menuTrace,          \* history: those clicks, "open" / "close" / "link"
    overlayAtLoad,      \* history: overlayCount as the markup had it
    \* --- carousel
    trackPresent,       \* document has .carousel-track
    nextPresent,        \* document has #testimonial-next
    prevPresent,        \* document has #testimonial-prev
    slideCount,         \* .carousel-slide elements inside the track
    slideWidth,         \* offsetWidth of the first slide
    trackScrollLeft,    \* track.scrollLeft once the smooth scroll has settled
    carouselListeners,  \* click listeners registered on the two buttons
    scrollRequests,     \* history: the 'left' amounts passed to track.scrollBy
    carouselTrace,      \* history: directions of the clicks on the two buttons
    trackAtLoad,        \* history: trackScrollLeft when the page loaded
    swiperDefined,      \* the Swiper library is loaded (typeof Swiper)
    swiperInstances,    \* selectors handed to new Swiper(...)
    warnings            \* console.warn calls

themeVars == <<themeTogglePresent, systemPrefersDark, stored, dataTheme,
               themeListener, storedAtLoad, themeTrace>>
headerVars == <<headerPresent, sentinelPresent, scrollY, headerSticky,
                scrollListener, scrollEvents, sentinelIntersecting,
                sentinelObserved, sentinelQueue>>
revealVars == <<revealPresent, revealVisible, revealObserved, revealQueue,
                revealAnimated, revealRuns>>
counterVars == <<counterPresent, counterVisible, counterObserved, counterQueue,
                 counterText, originalText, locale, rafQueue, now, counterRuns,
                 counterDone>>
menuVars == <<menuTogglePresent, desktopNavPresent, navLinks, overlayCount,
              overlayLinks, closeButtons, closeListener, linkListeners,
              menuListener, bodyOpen, menuClicks, menuTrace, overlayAtLoad>>
carouselVars == <<trackPresent, nextPresent, prevPresent, slideCount,
                  slideWidth, trackScrollLeft, carouselListeners,
                  scrollRequests, carouselTrace, trackAtLoad, swiperDefined,
                  swiperInstances, warnings>>
loadVars == <<initOrder, initsCompleted, raised>>
cloneVars == <<navReveals, navCounters, observedReveals, observedCounters>>
vars == <<variant, ready, loadVars, cloneVars, themeVars, headerVars, revealVars, counterVars,
          menuVars, carouselVars>>

(* ======================= 2. THEME CONTROLLER ========================== *)

\* JavaScript truthiness of a string-or-null
Truthy(v) == v # NULL /\ v # ""

\* applyTheme that forgets to persist
applyTheme_noPersist(theme) ==
    /\ dataTheme' = theme
    /\ UNCHANGED stored

\* const applyTheme = (theme) => { setAttribute('data-theme', theme);
\*                                 localStorage.setItem('theme', theme); }
applyTheme(theme) ==
    /\ dataTheme' = theme
    /\ stored' = theme

\* initial theme that lets the system preference win over the store
initialTheme_systemFirst(storedTheme, prefersDark) ==
    IF prefersDark THEN "dark"
    ELSE IF Truthy(storedTheme) THEN storedTheme ELSE "light"

\* storedTheme ? storedTheme : (systemPrefersDark ? 'dark' : 'light')
initialTheme(storedTheme, prefersDark) ==
    IF Truthy(storedTheme) THEN storedTheme
    ELSE IF prefersDark THEN "dark" ELSE "light"

\* currentTheme === 'dark' ? 'light' : 'dark'
newTheme(currentTheme) == IF currentTheme = "dark" THEN "light" ELSE "dark"

\* initThemeToggle: returns at once without #theme-toggle; otherwise applies
\* the initial theme and registers the click listener
initThemeToggle ==
    IF ~themeTogglePresent
    THEN /\ UNCHANGED <<stored, dataTheme, themeListener>>
         /\ themeTrace' = <<dataTheme>>
    ELSE /\ applyTheme(initialTheme(stored, systemPrefersDark))
         /\ themeListener' = TRUE
         /\ themeTrace' = <<dataTheme'>>

\* click listener of #theme-toggle
ThemeToggleClick ==
    /\ ready
    /\ themeListener
    /\ Len(themeTrace) <= MaxThemeClicks
    /\ applyTheme(newTheme(dataTheme))
    /\ themeTrace' = Append(themeTrace, dataTheme')
    /\ UNCHANGED <<variant, ready, loadVars, cloneVars, themeTogglePresent, systemPrefersDark,
                   themeListener, storedAtLoad, headerVars,
                   revealVars, counterVars, menuVars, carouselVars>>

(* ======================= 1. STICKY HEADER ============================= *)

\* scroll handler that uses >= for the comparison
stickyAt_inclusive(y) == y >= stickyPoint

\* window.scrollY > stickyPoint
stickyAt(y) == y > stickyPoint

\* header.classList.toggle('is-sticky', !entries[0].isIntersecting)
stickyFromEntries(entries) == ~entries[1]

\* a sticky-header initializer that only looks for the header
stickyHeaderReturns_headerOnly == ~headerPresent

\* initStickyHeader's early return: main.js 'if (!header) return', part_000
\* 'if (!header || !sentinel) return'
stickyHeaderReturns ==
    IF variant = "main" THEN ~headerPresent
    ELSE ~headerPresent \/ ~sentinelPresent

\* initStickyHeader of src/js/main.js: registers the scroll listener
initStickyHeaderMain ==
    /\ scrollListener' = ~stickyHeaderReturns
    /\ UNCHANGED <<sentinelObserved, sentinelQueue>>

\* initStickyHeader of src/unnamed/part_000: observes the sentinel; the
\* host queues a first entry with the sentinel's current state
initStickyHeaderSentinel ==
    IF ~stickyHeaderReturns
    THEN /\ sentinelObserved' = TRUE
         /\ sentinelQueue' = <<sentinelIntersecting>>
         /\ UNCHANGED scrollListener
    ELSE UNCHANGED <<sentinelObserved, sentinelQueue, scrollListener>>

initStickyHeader ==
    /\ IF variant = "main" THEN initStickyHeaderMain ELSE initStickyHeaderSentinel
    /\ scrollEvents' = 0
    /\ UNCHANGED <<headerSticky, scrollY, sentinelIntersecting>>

\* the user scrolls to offset y and the host dispatches a scroll event;
\* main.js's listener, when registered, sets or clears 'is-sticky'
Scroll(y) ==
    /\ ready
    /\ y # scrollY
    /\ scrollEvents < MaxScrollEvents
    /\ scrollY' = y
    /\ scrollEvents' = scrollEvents + 1
    /\ variant = "main"
    /\ headerSticky' = IF scrollListener THEN stickyAt(y) ELSE headerSticky
    /\ UNCHANGED <<sentinelIntersecting, sentinelObserved, sentinelQueue,
                   scrollListener, headerPresent, sentinelPresent>>
    /\ UNCHANGED <<variant, ready, loadVars, cloneVars, themeVars, revealVars, counterVars, menuVars,
                   carouselVars>>

\* the sentinel enters or leaves the viewport; the host queues an entry for
\* the observer when the sentinel is observed
SentinelChange ==
    /\ ready
    /\ variant = "part000"
    /\ sentinelPresent
    /\ Len(sentinelQueue) < MaxBatch
    /\ sentinelIntersecting' = ~sentinelIntersecting
    /\ sentinelQueue' = IF sentinelObserved
                        THEN Append(sentinelQueue, ~sentinelIntersecting)
                        ELSE sentinelQueue
    /\ UNCHANGED <<headerSticky, scrollY, scrollEvents, scrollListener,
                   sentinelObserved, headerPresent, sentinelPresent>>
    /\ UNCHANGED <<variant, ready, loadVars, cloneVars, themeVars, revealVars, counterVars, menuVars,
                   carouselVars>>

\* the host runs the header observer's callback with every queued entry
SentinelCallback ==
    /\ ready
    /\ sentinelQueue # <<>>
    /\ headerSticky' = stickyFromEntries(sentinelQueue)
    /\ sentinelQueue' = <<>>
    /\ UNCHANGED <<sentinelIntersecting, scrollY, scrollEvents, scrollListener,
                   sentinelObserved, headerPresent, sentinelPresent>>
    /\ UNCHANGED <<variant, ready, loadVars, cloneVars, themeVars, revealVars, counterVars, menuVars,
                   carouselVars>>

(* ======================= 3. MOBILE NAVIGATION ========================= *)

\* initMobileNav that builds the overlay without looking for an existing one
initMobileNav_alwaysBuild ==
    IF ~menuTogglePresent
    THEN UNCHANGED <<overlayCount, overlayLinks, closeButtons, closeListener,
                     linkListeners, menuListener>>
    ELSE /\ overlayCount' = overlayCount + 1
         /\ overlayLinks' = IF desktopNavPresent THEN navLinks ELSE 0
         /\ closeButtons' = 1
         /\ closeListener' = TRUE
         /\ linkListeners' = (variant = "part000")
         /\ menuListener' = TRUE

\* initMobileNav that leaves the overlay to be built later
initMobileNav_noBuild ==
    IF ~menuTogglePresent
    THEN UNCHANGED <<overlayCount, overlayLinks, closeButtons, closeListener,
                     linkListeners, menuListener>>
    ELSE /\ UNCHANGED <<overlayCount, overlayLinks, closeButtons,
                        closeListener, linkListeners>>
         /\ menuListener' = TRUE

\* initMobileNav: returns at once without #page-open-mobile-menu. When the
\* document has no #page-mobile-main-menu it creates one, fills it with the
\* desktop navigation's markup, prepends a close button and registers the
\* close listener (part_000: also one listener per link of the overlay).
\* An overlay already in the document is left as it is.  In both cases it
\* registers the click listener of the open control.
initMobileNav ==
    IF ~menuTogglePresent
    THEN UNCHANGED <<overlayCount, overlayLinks, closeButtons, closeListener,
                     linkListeners, menuListener>>
    ELSE /\ IF overlayCount = 0
            THEN /\ overlayCount' = overlayCount + 1
                 /\ overlayLinks' = IF desktopNavPresent THEN navLinks ELSE 0
                 /\ closeButtons' = 1
                 /\ closeListener' = TRUE
                 /\ linkListeners' = (variant = "part000")
            ELSE UNCHANGED <<overlayCount, overlayLinks, closeButtons,
                             closeListener, linkListeners>>
         /\ menuListener' = TRUE

menuFixed == <<menuTogglePresent, desktopNavPresent, navLinks, overlayCount,
               overlayLinks, closeButtons, closeListener, linkListeners,
               menuListener, overlayAtLoad>>

\* click on #page-open-mobile-menu:
\*   document.body.classList.toggle('mobile-menu-is-open')
MenuToggleClick ==
    /\ ready
    /\ menuTogglePresent
    /\ menuClicks < MaxMenuClicks
    /\ menuClicks' = menuClicks + 1
    /\ menuTrace' = Append(menuTrace, "open")
    /\ bodyOpen' = IF menuListener THEN ~bodyOpen ELSE bodyOpen
    /\ UNCHANGED menuFixed
    /\ UNCHANGED <<variant, ready, loadVars, cloneVars, themeVars, headerVars, revealVars, counterVars,
                   carouselVars>>

\* click on the overlay's close button:
\*   document.body.classList.remove('mobile-menu-is-open')
MenuCloseClick ==
    /\ ready
    /\ overlayCount > 0 /\ closeButtons > 0
    /\ menuClicks < MaxMenuClicks
    /\ menuClicks' = menuClicks + 1
    /\ menuTrace' = Append(menuTrace, "close")
    /\ bodyOpen' = IF closeListener THEN FALSE ELSE bodyOpen
    /\ UNCHANGED menuFixed
    /\ UNCHANGED <<variant, ready, loadVars, cloneVars, themeVars, headerVars, revealVars, counterVars,
                   carouselVars>>

\* click on a link inside the overlay (part_000 registers, per link,
\*   document.body.classList.remove('mobile-menu-is-open'))
MenuLinkClick ==
    /\ ready
    /\ overlayCount > 0 /\ overlayLinks > 0
    /\ menuClicks < MaxMenuClicks
    /\ menuClicks' = menuClicks + 1
    /\ menuTrace' = Append(menuTrace, "link")
    /\ bodyOpen' = IF linkListeners THEN FALSE ELSE bodyOpen
    /\ UNCHANGED menuFixed
    /\ UNCHANGED <<variant, ready, loadVars, cloneVars, themeVars, headerVars, revealVars, counterVars,
                   carouselVars>>

(* =================== 4. SCROLL-TRIGGERED ANIMATIONS =================== *)

\* number of intersecting entries in a batch
RECURSIVE CountIntersecting(_)
CountIntersecting(entries) ==
    IF entries = <<>> THEN 0
    ELSE (IF Head(entries) THEN 1 ELSE 0) + CountIntersecting(Tail(entries))

\* initScrollAnimations: with no .scroll-animate element it returns at once;
\* otherwise it observes the element and the host queues a first entry
initScrollAnimations ==
    IF revealPresent
    THEN /\ revealObserved' = TRUE
         /\ revealQueue' = <<revealVisible>>
    ELSE UNCHANGED <<revealObserved, revealQueue>>

\* the element enters or leaves the viewport; the host queues an entry when
\* the element is still a target of the observer
RevealVisibilityChange ==
    /\ ready
    /\ revealPresent
    /\ Len(revealQueue) < MaxBatch
    /\ revealVisible' = ~revealVisible
    /\ revealQueue' = IF revealObserved
                      THEN Append(revealQueue, ~revealVisible)
                      ELSE revealQueue
    /\ UNCHANGED <<revealPresent, revealObserved, revealAnimated, revealRuns>>
    /\ UNCHANGED <<variant, ready, loadVars, cloneVars, themeVars, headerVars, counterVars, menuVars,
                   carouselVars>>

\* a reveal callback that follows the entry's state: it sets the class from
\* the last entry of the batch and keeps observing the element
RevealCallback_followsVisibility ==
    /\ ready
    /\ revealQueue # <<>>
    /\ revealRuns' = revealRuns + CountIntersecting(revealQueue)
    /\ revealAnimated' = revealQueue[Len(revealQueue)]
    /\ revealObserved' = revealObserved
    /\ revealQueue' = <<>>
    /\ UNCHANGED <<revealPresent, revealVisible>>
    /\ UNCHANGED <<variant, ready, loadVars, cloneVars, themeVars, headerVars, counterVars, menuVars,
                   carouselVars>>

\* the reveal observer's callback runs over every queued entry:
\*   entries.forEach(entry => { if (entry.isIntersecting) {
\*       entry.target.classList.add('is-animated');
\*       observer.unobserve(entry.target); } })
\* unobserve stops later entries from being queued; those already in the
\* batch are still visited
RevealCallback ==
    /\ ready
    /\ revealQueue # <<>>
    /\ LET n == CountIntersecting(revealQueue) IN
        /\ revealRuns' = revealRuns + n
        /\ revealAnimated' = (revealAnimated \/ n > 0)
        /\ revealObserved' = (revealObserved /\ n = 0)
    /\ revealQueue' = <<>>
    /\ UNCHANGED <<revealPresent, revealVisible>>
    /\ UNCHANGED <<variant, ready, loadVars, cloneVars, themeVars, headerVars, counterVars, menuVars,
                   carouselVars>>

(* =================== 5. ANIMATED NUMBER COUNTERS ====================== *)

\* Number.NaN, kept apart from every count the page can show
NaN == 0 - 1

DigitChars == <<"0", "1", "2", "3", "4", "5", "6", "7", "8", "9">>
IsDigit(c) == \E i \in 1..10 : DigitChars[i] = c
DigitValue(c) == (CHOOSE i \in 1..10 : DigitChars[i] = c) - 1

\* decimal digits of a natural number
RECURSIVE ToDigits(_)
ToDigits(n) ==
    IF n < 10 THEN <<DigitChars[n + 1]>>
    ELSE ToDigits(n \div 10) \o <<DigitChars[(n % 10) + 1]>>

\* digits in groups of three from the right, joined by sep
RECURSIVE GroupDigits(_, _)
GroupDigits(ds, sep) ==
    IF Len(ds) <= 3 THEN ds
    ELSE GroupDigits(SubSeq(ds, 1, Len(ds) - 3), sep) \o <<sep>>
         \o SubSeq(ds, Len(ds) - 2, Len(ds))

\* grouping separator of the host locale
GroupSeparator(loc) == IF loc = "de-DE" THEN "." ELSE ","

\* Number.prototype.toLocaleString() in host locale loc
toLocaleString(n, loc) ==
    IF n = NaN THEN <<"N", "a", "N">>
    ELSE GroupDigits(ToDigits(n), GroupSeparator(loc))

\* value of a string of decimal digits
RECURSIVE DigitsValue(_)
DigitsValue(ds) ==
    IF ds = <<>> THEN 0
    ELSE 10 * DigitsValue(SubSeq(ds, 1, Len(ds) - 1)) + DigitValue(ds[Len(ds)])

\* parseInt(targetText.replace(/[^0-9]/g, ''), 10)
parseTarget(text) ==
    LET ds == SelectSeq(text, IsDigit) IN
    IF ds = <<>> THEN NaN ELSE DigitsValue(ds)

\* targetText.replace(/[0-9,]/g, '')
parseSuffix(text) == SelectSeq(text, LAMBDA c : ~IsDigit(c) /\ c # ",")

Min(a, b) == IF a < b THEN a ELSE b

\* main.js updateCount: one run of the callback of animation a.
\*   current += increment;            (increment = target / (duration / 16))
\*   if (current < target) { innerText = Math.ceil(current).toLocaleString();
\*                           requestAnimationFrame(updateCount); }
\*   else { innerText = target.toLocaleString() + suffix; }
\* current is kept as the number k of increments added; the comparison and
\* the ceiling are computed exactly on k * target / (duration / 16)
updateCount(a, loc) ==
    LET frames == duration \div frameMs
        k      == a.k + 1
        more   == a.target # NaN /\ k * a.target < a.target * frames
        shown  == (k * a.target + frames - 1) \div frames
    IN  IF more
        THEN [text  |-> toLocaleString(shown, loc),
              again |-> TRUE,
              anim  |-> [a EXCEPT !.k = k, !.prev = a.last, !.last = shown]]
        ELSE [text  |-> toLocaleString(a.target, loc) \o a.suffix,
              again |-> FALSE,
              anim  |-> [a EXCEPT !.k = k]]

\* a step that stops at full progress without writing the final text
step_noFinalText(a, timestamp, loc) ==
    LET start    == IF a.startTime = 0 THEN timestamp ELSE a.startTime
        elapsed  == Min(timestamp - start, duration)
        current  == IF a.target = NaN THEN NaN
                    ELSE (elapsed * a.target) \div duration
    IN  [text  |-> toLocaleString(current, loc),
         again |-> elapsed < duration,
         anim  |-> [a EXCEPT !.startTime = start, !.prev = a.last,
                             !.last = current]]

\* part_000 step(timestamp): one run of the callback of animation a.
\*   if (!startTime) startTime = timestamp;
\*   progress = Math.min((timestamp - startTime) / duration, 1);
\*   current = Math.floor(progress * target);
\*   innerText = current.toLocaleString();
\*   if (progress < 1) requestAnimationFrame(step);
\*   else innerText = target.toLocaleString() + suffix;
\* startTime 0 is the falsy "not started"; progress is kept as elapsed
\* milliseconds capped at duration
step(a, timestamp, loc) ==
    LET start    == IF a.startTime = 0 THEN timestamp ELSE a.startTime
        elapsed  == Min(timestamp - start, duration)
        current  == IF a.target = NaN THEN NaN
                    ELSE (elapsed * a.target) \div duration
    IN  IF elapsed < duration
        THEN [text  |-> toLocaleString(current, loc),
              again |-> TRUE,
              anim  |-> [a EXCEPT !.startTime = start, !.prev = a.last,
                                  !.last = current]]
        ELSE [text  |-> toLocaleString(a.target, loc) \o a.suffix,
              again |-> FALSE,
              anim  |-> [a EXCEPT !.startTime = start]]

\* the closure the observer callback creates for one intersecting entry;
\* last and prev are history: the values its two latest non-final frames
\* wrote (NaN before any); firstFrame is history: the timestamp of the first
\* frame that ran its callback (0 before any)
NewAnimation(text) ==
    [target |-> parseTarget(text), suffix |-> parseSuffix(text),
     k |-> 0, startTime |-> 0, last |-> NaN, prev |-> NaN, firstFrame |-> 0]

\* the observer callback's body for one entry, applied to
\* st = [text, raf, runs, observed]
counterEntry(st, isIntersecting, v) ==
    IF ~isIntersecting THEN st
    ELSE [text     |-> IF v = "part000" THEN <<"0">> ELSE st.text,
          raf      |-> Append(st.raf, NewAnimation(st.text)),
          runs     |-> st.runs + 1,
          observed |-> FALSE]

\* entries.forEach(...) of the counter observer
RECURSIVE counterEntries(_, _, _)
counterEntries(st, entries, v) ==
    IF entries = <<>> THEN st
    ELSE counterEntries(counterEntry(st, Head(entries), v), Tail(entries), v)

\* initCounters: with no .impact-card__number element it returns at once;
\* otherwise it observes the element and the host queues a first entry
initCounters ==
    IF counterPresent
    THEN /\ counterObserved' = TRUE
         /\ counterQueue' = <<counterVisible>>
    ELSE UNCHANGED <<counterObserved, counterQueue>>

\* the counter enters or leaves the viewport
CounterVisibilityChange ==
    /\ ready
    /\ counterPresent
    /\ Len(counterQueue) < MaxBatch
    /\ counterVisible' = ~counterVisible
    /\ counterQueue' = IF counterObserved
                       THEN Append(counterQueue, ~counterVisible)
                       ELSE counterQueue
    /\ UNCHANGED <<counterPresent, counterObserved, counterText, originalText,
                   locale, rafQueue, now, counterRuns, counterDone>>
    /\ UNCHANGED <<variant, ready, loadVars, cloneVars, themeVars, headerVars, revealVars, menuVars,
                   carouselVars>>

\* the host runs the counter observer's callback with every queued entry
CounterCallback ==
    /\ ready
    /\ counterQueue # <<>>
    /\ LET st == counterEntries([text |-> counterText, raf |-> rafQueue,
                                 runs |-> counterRuns,
                                 observed |-> counterObserved],
                                counterQueue, variant)
       IN  /\ counterText' = st.text
           /\ rafQueue' = st.raf
           /\ counterRuns' = st.runs
           /\ counterObserved' = st.observed
    /\ counterQueue' = <<>>
    /\ UNCHANGED <<counterPresent, counterVisible, originalText, locale, now,
                   counterDone>>
    /\ UNCHANGED <<variant, ready, loadVars, cloneVars, themeVars, headerVars, revealVars, menuVars,
                   carouselVars>>

\* the callbacks of one animation frame, run in the order they were
\* requested, applied to fr = [text, raf, done]; callbacks requested during
\* the frame wait for the next one; a callback that requests no further
\* frame has rendered its final text and is logged in done
RECURSIVE runFrame(_, _, _, _, _)
runFrame(fr, pending, timestamp, loc, v) ==
    IF pending = <<>> THEN fr
    ELSE LET a == [Head(pending) EXCEPT
                      !.firstFrame = IF @ = 0 THEN timestamp ELSE @]
             r == IF v = "main" THEN updateCount(a, loc)
                  ELSE step(a, timestamp, loc)
         IN  runFrame([text |-> r.text,
                       raf  |-> IF r.again THEN Append(fr.raf, r.anim) ELSE fr.raf,
                       done |-> IF r.again THEN fr.done
                                ELSE Append(fr.done,
                                            [target     |-> a.target,
                                             suffix     |-> a.suffix,
                                             firstFrame |-> a.firstFrame,
                                             at         |-> timestamp])],
                      Tail(pending), timestamp, loc, v)

\* milliseconds between two animation frames, as the host may space them
FrameGaps == {400, 1000}

\* the host delivers an animation frame gap milliseconds after the previous
\* one and passes the time to every callback (main.js's updateCount ignores
\* it)
AnimationFrame(gap) ==
    /\ ready
    /\ rafQueue # <<>>
    /\ now' = now + gap
    /\ LET fr == runFrame([text |-> counterText, raf |-> <<>>,
                           done |-> counterDone], rafQueue, now', locale,
                          variant)
       IN  /\ counterText' = fr.text
           /\ rafQueue' = fr.raf
           /\ counterDone' = fr.done
    /\ UNCHANGED <<counterPresent, counterVisible, counterObserved, counterQueue,
                   originalText, locale, counterRuns>>
    /\ UNCHANGED <<variant, ready, loadVars, cloneVars, themeVars, headerVars, revealVars, menuVars,
                   carouselVars>>

(* ============================ 6. CAROUSEL ============================= *)

\* largest scrollLeft of the track: its slides side by side, one in view
trackScrollMax == IF slideCount = 0 THEN 0 ELSE slideWidth * (slideCount - 1)

Clamp(x, lo, hi) == IF x < lo THEN lo ELSE IF x > hi THEN hi ELSE x

\* initTestimonialCarousel of part_000: without the track or one of the two
\* buttons it returns at once; otherwise it registers the two click listeners
initTestimonialCarousel ==
    /\ carouselListeners' = (trackPresent /\ nextPresent /\ prevPresent)
    /\ UNCHANGED <<swiperInstances, warnings>>

\* initCarousels of main.js: without the Swiper library it warns and
\* returns; otherwise it builds the two Swiper carousels
initCarousels ==
    /\ IF swiperDefined
       THEN /\ swiperInstances' = <<".tm-testimonial", ".tm-logo-carousel">>
            /\ UNCHANGED warnings
       ELSE /\ warnings' = warnings + 1
            /\ UNCHANGED swiperInstances
    /\ UNCHANGED carouselListeners

\* scrollCarousel(direction): without a slide it returns; otherwise
\*   track.scrollBy({ left: slide.offsetWidth * direction, behavior: 'smooth' })
\* and the host scrolls the track by that amount, as far as the track goes
\* scrollCarousel that scrolls forward whatever the direction
scrollCarousel_forwardOnly(direction) ==
    IF slideCount = 0
    THEN UNCHANGED <<trackScrollLeft, scrollRequests>>
    ELSE LET scrollAmount == slideWidth IN
         /\ scrollRequests' = Append(scrollRequests, scrollAmount)
         /\ trackScrollLeft' = Clamp(trackScrollLeft + scrollAmount, 0,
                                     trackScrollMax)

scrollCarousel(direction) ==
    IF slideCount = 0
    THEN UNCHANGED <<trackScrollLeft, scrollRequests>>
    ELSE LET scrollAmount == slideWidth * direction IN
         /\ scrollRequests' = Append(scrollRequests, scrollAmount)
         /\ trackScrollLeft' = Clamp(trackScrollLeft + scrollAmount, 0,
                                     trackScrollMax)

carouselFixed == <<trackPresent, nextPresent, prevPresent, slideCount,
                   slideWidth, carouselListeners, swiperDefined,
                   swiperInstances, warnings, trackAtLoad>>

\* click on #testimonial-next (direction 1) or #testimonial-prev (-1)
CarouselClick(direction) ==
    /\ ready
    /\ IF direction = 1 THEN nextPresent ELSE prevPresent
    /\ Len(carouselTrace) < MaxCarouselClicks
    /\ carouselTrace' = Append(carouselTrace, direction)
    /\ IF carouselListeners
       THEN scrollCarousel(direction)
       ELSE UNCHANGED <<trackScrollLeft, scrollRequests>>
    /\ UNCHANGED carouselFixed
    /\ UNCHANGED <<variant, ready, loadVars, cloneVars, themeVars, headerVars, revealVars,
                   counterVars, menuVars>>

(* ===================== document-ready handler ========================= *)

\* the six initializers; "initCarousels" stands for the carousel
\* initializer of either revision (part_000: initTestimonialCarousel)
Initializers == {"initStickyHeader", "initThemeToggle", "initMobileNav",
                 "initScrollAnimations", "initCounters", "initCarousels"}

\* the order in which the handler calls them
SourceOrder == <<"initStickyHeader", "initThemeToggle", "initMobileNav",
                 "initScrollAnimations", "initCounters", "initCarousels">>

\* every order the six calls can be written in
InitOrders ==
    {o \in [1..6 -> Initializers] : \A i, j \in 1..6 : o[i] = o[j] => i = j}

Position(order, name) == CHOOSE i \in 1..Len(order) : order[i] = name
Before(order, a, b) == Position(order, a) < Position(order, b)

\* initMobileNav builds the overlay and fills it from the navigation:
\*   mobileMenu.innerHTML = `<div ...>${desktopNav.outerHTML}</div>`
clonesNav == menuTogglePresent /\ overlayAtLoad = 0 /\ desktopNavPresent

\* an overlay filled from the whole page's markup
overlayClonesReveal_wholePage ==
    menuTogglePresent /\ overlayAtLoad = 0
        /\ ((desktopNavPresent /\ navReveals) \/ revealPresent)

\* the copy holds a copy of every tagged element of the navigation
overlayClonesReveal == clonesNav /\ navReveals
overlayClonesCounter == clonesNav /\ navCounters

\* document.querySelectorAll('.scroll-animate') as initScrollAnimations
\* runs under order, the page's own target left aside: the navigation's
\* element, and its copy when initMobileNav has already built the overlay
revealTargets(order) ==
    (IF desktopNavPresent /\ navReveals THEN {"nav"} ELSE {})
    \cup (IF /\ overlayClonesReveal
             /\ Before(order, "initMobileNav", "initScrollAnimations")
          THEN {"overlay"} ELSE {})

\* document.querySelectorAll('.impact-card__number') as initCounters runs
counterTargets(order) ==
    (IF desktopNavPresent /\ navCounters THEN {"nav"} ELSE {})
    \cup (IF /\ overlayClonesCounter
             /\ Before(order, "initMobileNav", "initCounters")
          THEN {"overlay"} ELSE {})

\* the guard at the top of each initializer: it returns at once when the
\* element (or library) it looked up is missing
returnsEarly(name) ==
    CASE name = "initStickyHeader"     -> stickyHeaderReturns
      [] name = "initThemeToggle"      -> ~themeTogglePresent
      [] name = "initMobileNav"        -> ~menuTogglePresent
      [] name = "initScrollAnimations" ->
            ~(revealPresent \/ revealTargets(initOrder) # {})
      [] name = "initCounters"         ->
            ~(counterPresent \/ counterTargets(initOrder) # {})
      [] name = "initCarousels"        ->
            IF variant = "main" THEN ~swiperDefined
            ELSE ~trackPresent \/ ~nextPresent \/ ~prevPresent

\* past its guard the initializer calls a method of something that is
\* missing: observer.observe(sentinel), themeToggleButton.addEventListener,
\* menuToggle.addEventListener, new Swiper(...),
\* nextButton/prevButton.addEventListener; the two observer initializers
\* only walk the list querySelectorAll returned
usesMissing(name) ==
    CASE name = "initStickyHeader"     -> variant = "part000" /\ ~sentinelPresent
      [] name = "initThemeToggle"      -> ~themeTogglePresent
      [] name = "initMobileNav"        -> ~menuTogglePresent
      [] name = "initScrollAnimations" -> FALSE
      [] name = "initCounters"         -> FALSE
      [] name = "initCarousels"        ->
            IF variant = "main" THEN ~swiperDefined
            ELSE ~nextPresent \/ ~prevPresent

\* the call raises a TypeError / ReferenceError
raises(name) == ~returnsEarly(name) /\ usesMissing(name)

\* the call of name is reached and returns normally: nothing raised before
\* it or in it
completes(order, name) ==
    \A i \in 1..Position(order, name) : ~raises(order[i])

initsCompletedAfter(order) ==
    Cardinality({name \in Initializers : completes(order, name)})

\* document.addEventListener('DOMContentLoaded', ...): the initializers run
\* once, in the order the handler lists them; an exception raised by one of
\* them leaves the handler, and the calls after it are not made
DOMContentLoaded ==
    /\ ~ready
    /\ ready' = TRUE
    /\ observedReveals' = IF completes(initOrder, "initScrollAnimations")
                          THEN revealTargets(initOrder) ELSE observedReveals
    /\ observedCounters' = IF completes(initOrder, "initCounters")
                           THEN counterTargets(initOrder) ELSE observedCounters
    /\ initsCompleted' = initsCompletedAfter(initOrder)
    /\ raised' = (initsCompleted' < Cardinality(Initializers))
    /\ IF completes(initOrder, "initStickyHeader")
       THEN initStickyHeader
       ELSE UNCHANGED <<scrollListener, sentinelObserved, sentinelQueue,
                        scrollEvents, headerSticky, scrollY,
                        sentinelIntersecting>>
    /\ IF completes(initOrder, "initThemeToggle")
       THEN initThemeToggle
       ELSE UNCHANGED <<stored, dataTheme, themeListener, themeTrace>>
    /\ IF completes(initOrder, "initMobileNav")
       THEN initMobileNav
       ELSE UNCHANGED <<overlayCount, overlayLinks, closeButtons,
                        closeListener, linkListeners, menuListener>>
    /\ IF completes(initOrder, "initScrollAnimations")
       THEN initScrollAnimations
       ELSE UNCHANGED <<revealObserved, revealQueue>>
    /\ IF completes(initOrder, "initCounters")
       THEN initCounters
       ELSE UNCHANGED <<counterObserved, counterQueue>>
    /\ IF completes(initOrder, "initCarousels")
       THEN IF variant = "main" THEN initCarousels ELSE initTestimonialCarousel
       ELSE UNCHANGED <<carouselListeners, swiperInstances, warnings>>
    /\ UNCHANGED <<initOrder, navReveals, navCounters>>
    /\ UNCHANGED <<trackPresent, nextPresent, prevPresent, slideCount,
                   slideWidth, trackScrollLeft, scrollRequests, carouselTrace,
                   trackAtLoad, swiperDefined>>
    /\ UNCHANGED <<variant, themeTogglePresent, systemPrefersDark, storedAtLoad,
                   headerPresent, sentinelPresent>>
    /\ UNCHANGED <<revealPresent, revealVisible, revealAnimated, revealRuns>>
    /\ UNCHANGED <<counterPresent, counterVisible, counterText, originalText,
                   locale, rafQueue, now, counterRuns, counterDone>>
    /\ UNCHANGED <<menuTogglePresent, desktopNavPresent, navLinks, bodyOpen,
                   menuClicks, menuTrace, overlayAtLoad>>

(* ========================== initial states ============================ *)

ThemeAbsent ==
    /\ themeTogglePresent = FALSE
    /\ systemPrefersDark = FALSE
    /\ stored = NULL
    /\ dataTheme = NULL

ThemeAny ==
    /\ themeTogglePresent \in BOOLEAN
    /\ systemPrefersDark \in BOOLEAN
    /\ stored \in StoredValues
    /\ dataTheme \in MarkupThemes

ThemeStart ==
    /\ themeListener = FALSE
    /\ storedAtLoad = stored
    /\ themeTrace = <<>>

HeaderAbsent ==
    /\ headerPresent = FALSE
    /\ sentinelPresent = FALSE
    /\ scrollY = 0
    /\ sentinelIntersecting = TRUE

\* the page may load already scrolled (reload, back navigation, #fragment);
\* the sentinel sits at the top of the page
HeaderAny ==
    /\ headerPresent \in BOOLEAN
    /\ sentinelPresent \in BOOLEAN
    /\ scrollY \in 0..MaxScrollY
    /\ sentinelIntersecting \in BOOLEAN

HeaderStart ==
    /\ headerSticky = FALSE
    /\ scrollListener = FALSE
    /\ scrollEvents = 0
    /\ sentinelObserved = FALSE
    /\ sentinelQueue = <<>>

RevealAbsent ==
    /\ revealPresent = FALSE
    /\ revealVisible = FALSE

RevealAny ==
    /\ revealPresent \in BOOLEAN
    /\ revealVisible \in BOOLEAN

RevealStart ==
    /\ revealObserved = FALSE
    /\ revealQueue = <<>>
    /\ revealAnimated = FALSE
    /\ revealRuns = 0

\* counts and suffixes the markup's counters show
CounterValues == {0, 1, 1234}
CounterSuffixes == {<<>>, <<"+">>}
\* a digit-grouped integer followed by a suffix without digits or commas
GroupedTexts ==
    {GroupDigits(ToDigits(n), ",") \o suf : n \in CounterValues,
                                            suf \in CounterSuffixes}
\* a text without any digit
DigitlessTexts == {<<"N", "/", "A">>}
Locales == {"en-US", "de-DE"}

CounterAbsent ==
    /\ counterPresent = FALSE
    /\ counterVisible = FALSE
    /\ counterText = <<>>
    /\ locale = "en-US"

CounterAny ==
    /\ counterPresent \in BOOLEAN
    /\ counterVisible \in BOOLEAN
    /\ counterText \in GroupedTexts \cup DigitlessTexts
    /\ locale \in Locales

CounterStart ==
    /\ counterObserved = FALSE
    /\ counterQueue = <<>>
    /\ originalText = counterText
    /\ rafQueue = <<>>
    /\ now = 0
    /\ counterRuns = 0
    /\ counterDone = <<>>

MenuAbsent ==
    /\ menuTogglePresent = FALSE
    /\ desktopNavPresent = FALSE
    /\ navLinks = 0
    /\ overlayCount = 0
    /\ overlayLinks = 0
    /\ closeButtons = 0

\* the markup may already hold an overlay, with or without a link and a
\* close control of its own
MenuAny ==
    /\ menuTogglePresent \in BOOLEAN
    /\ desktopNavPresent \in BOOLEAN
    /\ navLinks \in 0..MaxNavLinks
    /\ desktopNavPresent \/ navLinks = 0
    /\ overlayCount \in {0, 1}
    /\ overlayLinks \in {0, 1}
    /\ closeButtons \in {0, 1}
    /\ overlayCount = 1 \/ (overlayLinks = 0 /\ closeButtons = 0)

MenuStart ==
    /\ closeListener = FALSE
    /\ linkListeners = FALSE
    /\ menuListener = FALSE
    /\ bodyOpen = FALSE
    /\ menuClicks = 0
    /\ menuTrace = <<>>
    /\ overlayAtLoad = overlayCount

\* widths a slide can measure
SlideWidths == {200, 320}

CarouselAbsent ==
    /\ trackPresent = FALSE
    /\ nextPresent = FALSE
    /\ prevPresent = FALSE
    /\ slideCount = 0
    /\ slideWidth = 200
    /\ trackScrollLeft = 0
    /\ swiperDefined = FALSE

\* the track may start anywhere a slide boundary puts it
CarouselAny ==
    /\ trackPresent \in BOOLEAN
    /\ nextPresent \in BOOLEAN
    /\ prevPresent \in BOOLEAN
    /\ slideCount \in 0..MaxSlides
    /\ trackPresent \/ slideCount = 0
    /\ slideWidth \in SlideWidths
    /\ trackScrollLeft \in {slideWidth * i : i \in 0..MaxSlides}
    /\ trackScrollLeft <= trackScrollMax
    /\ swiperDefined \in BOOLEAN

CarouselStart ==
    /\ carouselListeners = FALSE
    /\ scrollRequests = <<>>
    /\ carouselTrace = <<>>
    /\ trackAtLoad = trackScrollLeft
    /\ swiperInstances = <<>>
    /\ warnings = 0

\* before the handler runs: nothing registered, nothing observed
LoadingStart ==
    /\ variant \in Variants
    /\ ready = FALSE
    /\ initsCompleted = 0
    /\ raised = FALSE
    /\ observedReveals = {}
    /\ observedCounters = {}
    /\ ThemeStart
    /\ HeaderStart
    /\ RevealStart
    /\ CounterStart
    /\ MenuStart
    /\ CarouselStart

\* the handler as the source writes it, on a page whose navigation holds no
\* tagged element
Loading ==
    /\ LoadingStart
    /\ initOrder = SourceOrder
    /\ navReveals = FALSE
    /\ navCounters = FALSE

(* ---------------------- theme specification --------------------------- *)
InitTheme == ThemeAny /\ HeaderAbsent /\ RevealAbsent /\ CounterAbsent /\ MenuAbsent /\ CarouselAbsent /\ Loading
NextTheme == DOMContentLoaded \/ ThemeToggleClick
SpecTheme == InitTheme /\ [][NextTheme]_vars

(* ---------------------- header specification -------------------------- *)
InitHeader == ThemeAbsent /\ HeaderAny /\ RevealAbsent /\ CounterAbsent /\ MenuAbsent /\ CarouselAbsent /\ Loading
NextHeader ==
    \/ DOMContentLoaded
    \/ \E y \in 0..MaxScrollY : Scroll(y)
    \/ SentinelChange
    \/ SentinelCallback
SpecHeader == InitHeader /\ [][NextHeader]_vars

(* --------------------- observer specification ------------------------- *)
\* the reveal target and the counter, with one counter text
InitObserve ==
    /\ ThemeAbsent /\ HeaderAbsent /\ RevealAny /\ CounterAny /\ MenuAbsent /\ CarouselAbsent /\ Loading
    /\ counterText = <<"1", "+">>
    /\ locale = "en-US"
NextObserve ==
    \/ DOMContentLoaded
    \/ RevealVisibilityChange
    \/ RevealCallback
    \/ CounterVisibilityChange
    \/ CounterCallback
    \/ \E gap \in FrameGaps : AnimationFrame(gap)
SpecObserve == InitObserve /\ [][NextObserve]_vars

(* --------------------- counter specification -------------------------- *)
InitCounter == ThemeAbsent /\ HeaderAbsent /\ RevealAbsent /\ CounterAny /\ MenuAbsent /\ CarouselAbsent /\ Loading
NextCounter ==
    \/ DOMContentLoaded
    \/ CounterVisibilityChange
    \/ CounterCallback
    \/ \E gap \in FrameGaps : AnimationFrame(gap)
SpecCounter == InitCounter /\ [][NextCounter]_vars

(* ------------- counter specification, frames kept coming ------------- *)
\* the host keeps delivering animation frames while a callback is waiting
\* for one
FairFrames == WF_vars(\E gap \in FrameGaps : AnimationFrame(gap))
\* one counter of each kind of target: zero, positive, not a number
InitCounterFair ==
    /\ InitCounter
    /\ counterPresent
    /\ locale = "en-US"
    /\ counterText \in {<<"0">>, <<"1", "+">>, <<"N", "/", "A">>}
SpecCounterFair == InitCounterFair /\ [][NextCounter]_vars /\ FairFrames

(* ---------------- page-load specification: any markup ----------------- *)
\* every combination of present and absent elements, one page of each
InitLoad ==
    /\ systemPrefersDark = FALSE /\ stored = NULL /\ dataTheme = NULL
    /\ ThemeAny
    /\ scrollY = 0 /\ sentinelIntersecting = TRUE
    /\ HeaderAny
    /\ revealVisible = FALSE
    /\ RevealAny
    /\ counterVisible = FALSE /\ counterText = <<"1", "+">> /\ locale = "en-US"
    /\ CounterAny
    /\ desktopNavPresent \in BOOLEAN
    /\ navLinks = (IF desktopNavPresent THEN 1 ELSE 0)
    /\ overlayLinks = 0 /\ closeButtons = 0
    /\ MenuAny
    /\ slideCount \in {0, 1} /\ slideWidth = 200 /\ trackScrollLeft = 0
    /\ CarouselAny
    /\ Loading
NextLoad == DOMContentLoaded
SpecLoad == InitLoad /\ [][NextLoad]_vars

(* ------------- page-load specification: any order of calls ------------ *)
\* the six calls in every order, on pages whose navigation may hold tagged
\* elements
InitPermuted ==
    /\ ThemeAbsent /\ HeaderAbsent /\ CarouselAbsent
    /\ revealVisible = FALSE
    /\ RevealAny
    /\ counterVisible = FALSE /\ counterText = <<"1", "+">> /\ locale = "en-US"
    /\ CounterAny
    /\ navLinks = 0 /\ overlayLinks = 0 /\ closeButtons = 0
    /\ MenuAny
    /\ LoadingStart
    /\ initOrder \in InitOrders
    /\ navReveals \in BOOLEAN
    /\ navCounters \in BOOLEAN
    /\ desktopNavPresent \/ ~(navReveals \/ navCounters)
NextPermuted == DOMContentLoaded
SpecPermuted == InitPermuted /\ [][NextPermuted]_vars

(* ----------------------- menu specification --------------------------- *)
InitMenu ==
    /\ ThemeAbsent /\ HeaderAbsent /\ RevealAbsent /\ CounterAbsent /\ MenuAny
    /\ CarouselAbsent /\ Loading
NextMenu ==
    \/ DOMContentLoaded
    \/ MenuToggleClick
    \/ MenuCloseClick
    \/ MenuLinkClick
SpecMenu == InitMenu /\ [][NextMenu]_vars

(* --------------------- carousel specification ------------------------- *)
InitCarousel ==
    /\ ThemeAbsent /\ HeaderAbsent /\ RevealAbsent /\ CounterAbsent /\ MenuAbsent
    /\ CarouselAny /\ Loading
NextCarousel ==
    \/ DOMContentLoaded
    \/ \E direction \in {1, 0 - 1} : CarouselClick(direction)
SpecCarousel == InitCarousel /\ [][NextCarousel]_vars

(* ============================ claims ================================== *)

(* ---- theme (SpecTheme) ---- *)

\* C1 as stated: after initialization and after every toggle click the value
\* stored under 'theme' equals the data-theme attribute, with or without the
\* toggle control in the document.
C1_StoredEqualsApplied_AnyPage == ready => stored = dataTheme

\* C1 amended: when #theme-toggle is present, after initialization and after
\* every toggle click the stored value equals the data-theme attribute.
C1_StoredEqualsApplied == (ready /\ themeTogglePresent) => stored = dataTheme

C1_Witness ==
    /\ ready /\ themeTogglePresent
    /\ Len(themeTrace) = 3
    /\ storedAtLoad = NULL
    /\ stored = "dark" /\ dataTheme = "dark"

\* C2 as stated: after initialization data-theme is the stored value whenever
\* one is stored; with nothing stored it is 'dark' when the system prefers
\* dark and 'light' otherwise.
C2_InitialTheme_AnyPage ==
    ready =>
        /\ storedAtLoad # NULL => themeTrace[1] = storedAtLoad
        /\ (storedAtLoad = NULL /\ systemPrefersDark) => themeTrace[1] = "dark"
        /\ (storedAtLoad = NULL /\ ~systemPrefersDark) => themeTrace[1] = "light"

\* C2 amended: when #theme-toggle is present, after initialization data-theme
\* is the stored value whenever a non-empty value is stored; with nothing or
\* the empty string stored it is 'dark' when the system prefers dark and
\* 'light' otherwise.
C2_InitialTheme ==
    (ready /\ themeTogglePresent) =>
        /\ storedAtLoad \notin {NULL, ""} => themeTrace[1] = storedAtLoad
        /\ (storedAtLoad \in {NULL, ""} /\ systemPrefersDark)
              => themeTrace[1] = "dark"
        /\ (storedAtLoad \in {NULL, ""} /\ ~systemPrefersDark)
              => themeTrace[1] = "light"

C2_Witness ==
    /\ ready /\ themeTogglePresent
    /\ storedAtLoad = "light" /\ systemPrefersDark
    /\ themeTrace = <<"light">>

\* C3: two consecutive toggle clicks bring data-theme (and with it the stored
\* value) back to what it was before them, from every state reached after
\* initialization.
C3_ToggleInvolution ==
    \A i \in 1..(Len(themeTrace) - 2) : themeTrace[i + 2] = themeTrace[i]

\* C4: once the theme controller has initialized, the value stored under
\* 'theme' is 'light' or 'dark', whatever the store held at load.
C4_StoredIsLightOrDark ==
    (ready /\ themeTogglePresent) => stored \in {"light", "dark"}

(* ---- sticky header (SpecHeader) ---- *)

\* C5 as stated (main.js): at all times after initialization the header is
\* not sticky when the offset is below 10 and sticky when it is 10 or more.
C5_StickyAtOrAboveThreshold ==
    (ready /\ variant = "main" /\ headerPresent) =>
        (headerSticky <=> scrollY >= stickyPoint)

\* C5 amended (main.js): after every scroll event since initialization the
\* header is not sticky when the offset is 10 or less and sticky when it is
\* more than 10.
C5_StickyAboveThreshold ==
    (ready /\ variant = "main" /\ headerPresent /\ scrollEvents >= 1) =>
        (headerSticky <=> scrollY > stickyPoint)

C5_Witness ==
    /\ ready /\ variant = "main" /\ headerPresent
    /\ scrollEvents = 2 /\ scrollY = stickyPoint /\ ~headerSticky

\* C6 (part_000): whenever every queued observer entry has been delivered,
\* the header is sticky exactly when the sentinel is not intersecting; this
\* is the claim at the moments most favourable to it.
C6_StickyIsNotIntersecting ==
    (ready /\ sentinelObserved /\ sentinelQueue = <<>>) =>
        (headerSticky <=> ~sentinelIntersecting)

(* ---- observers (SpecObserve) ---- *)

\* C7: the reveal target and the counter are each processed by their
\* observer callback at most once per page load, for any sequence of
\* intersection notifications.
C7_ProcessedAtMostOnce == revealRuns <= 1 /\ counterRuns <= 1

(* ---- counters (SpecCounter) ---- *)

\* C8: when the original text is a digit-grouped integer followed by a
\* suffix without digits or commas, the text shown once the animation has
\* finished is the original text.
C8_FinalTextIsOriginal ==
    (counterRuns >= 1 /\ rafQueue = <<>> /\ originalText \in GroupedTexts)
        => counterText = originalText

\* C9: for a target T >= 1, every value written by a frame before the
\* completing one is below T, and is not below the value the frame before it
\* wrote.
C9_IntermediateFrames ==
    \A i \in 1..Len(rafQueue) :
        LET a == rafQueue[i] IN
        (a.target >= 1 /\ a.last # NaN) =>
            /\ a.last < a.target
            /\ a.prev # NaN => a.prev <= a.last

(* ---- mobile menu (SpecMenu) ---- *)

\* C10: the document never holds more than one #page-mobile-main-menu
\* element, whatever clicks on the open control, the close control and the
\* overlay's links follow initialization.
C10_OneOverlay == overlayCount <= 1

C10_Witness ==
    /\ ready /\ closeListener
    /\ overlayCount = 1
    /\ menuClicks >= 3
    /\ bodyOpen

\* the open-control clicks of a click history that follow its latest
\* close-control click
RECURSIVE OpenClicksSinceClose(_)
OpenClicksSinceClose(trace) ==
    IF trace = <<>> THEN 0
    ELSE LET last == trace[Len(trace)]
             rest == SubSeq(trace, 1, Len(trace) - 1)
         IN  IF last = "close" THEN 0
             ELSE OpenClicksSinceClose(rest) + (IF last = "open" THEN 1 ELSE 0)

\* C11: whenever the latest click was on a link inside an overlay the script
\* has built, the body does not carry 'mobile-menu-is-open'.
C11_LinkClickCloses ==
    (closeListener /\ menuTrace # <<>> /\ menuTrace[Len(menuTrace)] = "link")
        => ~bodyOpen

C18_OpenIffOddOpenClicks ==
    /\ ~ready => ~bodyOpen
    /\ (ready /\ \A i \in 1..Len(menuTrace) : menuTrace[i] # "link") =>
          (bodyOpen <=> OpenClicksSinceClose(menuTrace) % 2 = 1)

(* ---- carousel (SpecCarousel) ---- *)

RECURSIVE SumSeq(_)
SumSeq(q) == IF q = <<>> THEN 0 ELSE Head(q) + SumSeq(Tail(q))

\* the carousel controller of part_000 is bound and the track has a slide
CarouselBound == ready /\ carouselListeners /\ slideCount > 0

\* no request of the history asks the track to go past either of its ends
RequestsStayInRange ==
    \A k \in 1..Len(scrollRequests) :
        LET at == trackAtLoad + SumSeq(SubSeq(scrollRequests, 1, k)) IN
        0 <= at /\ at <= trackScrollMax

\* C14 as stated (part_000): after n next-clicks and p previous-clicks with
\* slide width w the track's scroll position has changed by w * (n - p).
C14_PositionIsLinear ==
    CarouselBound =>
        trackScrollLeft - trackAtLoad = slideWidth * SumSeq(carouselTrace)

\* C14 amended (part_000): each next-click requests a scroll by plus one
\* slide width and each previous-click by minus one; the scroll position has
\* changed by w * (n - p) whenever no request asked the track to go past an
\* end of its scroll range.
C14_RequestsAreLinear ==
    CarouselBound =>
        /\ Len(scrollRequests) = Len(carouselTrace)
        /\ \A i \in 1..Len(scrollRequests) :
              scrollRequests[i] = slideWidth * carouselTrace[i]
        /\ RequestsStayInRange =>
              trackScrollLeft - trackAtLoad = slideWidth * SumSeq(carouselTrace)

C14_Witness ==
    /\ CarouselBound
    /\ carouselTrace = <<1, 1, 0 - 1>>
    /\ RequestsStayInRange
    /\ trackScrollLeft = trackAtLoad + slideWidth

(* ---- counters without a digit (SpecCounter) ---- *)

\* C15 (main.js, part_000): a counter whose display text holds no digit is
\* nothing to animate: its display text is the original text in every state,
\* also after it has become visible.
C15_DigitlessLeftUntouched ==
    parseTarget(originalText) = NaN => counterText = originalText

(* ---- reveal permanence (SpecObserve) ---- *)

\* C19 (main.js, part_000): once the reveal target carries 'is-animated' it
\* carries it in every later state, whatever visibility changes follow; and
\* a target for which the callback has never been given an intersecting
\* entry does not carry the class.
C19_RevealIsPermanent ==
    /\ [][revealAnimated => revealAnimated']_vars
    /\ [](revealAnimated => revealRuns > 0)

\* the target was revealed and has left the viewport since
C19_Witness ==
    /\ revealAnimated
    /\ ~revealObserved
    /\ ~revealVisible
    /\ revealQueue = <<>>

(* ---- frame timing (SpecCounter) ---- *)

\* C16 (main.js, part_000): whatever the spacing of the frames, the
\* animation of a counter with a positive target completes on the first
\* frame whose timestamp is at least duration milliseconds after that of its
\* first frame: an animation still pending after a frame is less than
\* duration past its first frame, and one that completed did so at least
\* duration after its first frame.
C16_CompletesAtDuration ==
    /\ \A i \in 1..Len(rafQueue) :
          (rafQueue[i].target > 0 /\ rafQueue[i].firstFrame # 0) =>
              now - rafQueue[i].firstFrame < duration
    /\ \A i \in 1..Len(counterDone) :
          counterDone[i].target > 0 =>
              counterDone[i].at - counterDone[i].firstFrame >= duration

(* ---- termination of the animations (SpecCounterFair) ---- *)

\* the counter was triggered and no callback waits for a frame
CounterFinished == counterRuns > 0 /\ rafQueue = <<>>

\* the final text of the animation that completed last
FinalText ==
    LET d == counterDone[Len(counterDone)] IN
    toLocaleString(d.target, locale) \o d.suffix

\* C17 (main.js, part_000): with frames kept coming, every triggered counter,
\* whatever its parsed target (positive, zero or NaN), eventually has no
\* callback waiting for a frame and shows its final text; from then on no
\* frame is requested and the text does not change.
C17_AnimationsTerminate ==
    /\ (counterRuns > 0) ~> CounterFinished
    /\ [](CounterFinished => counterText = FinalText)
    /\ [][CounterFinished => (CounterFinished' /\ counterText' = counterText)]_vars

\* a NaN target whose timestamp-driven animation has ended
C17_Witness ==
    /\ CounterFinished
    /\ variant = "part000"
    /\ counterDone # <<>>
    /\ counterDone[1].target = NaN
    /\ counterDone[1].at - counterDone[1].firstFrame >= duration

(* ---- missing elements (SpecLoad) ---- *)

\* C13 (main.js, part_000): whatever elements the page holds, the handler
\* raises nothing and all six initializers return normally; and a controller
\* whose required elements are missing (header: the header, in part_000 also
\* the sentinel; theme: the toggle; menu: the open control; reveal and
\* counters: a target; part_000's carousel: the track and both buttons)
\* registers no handler and changes no state.
C13_MissingElementsAreNoOps ==
    /\ [](~raised)
    /\ [](ready => initsCompleted = Cardinality(Initializers))
    /\ [][(IF variant = "main" THEN ~headerPresent
           ELSE ~headerPresent \/ ~sentinelPresent)
          => UNCHANGED <<scrollListener, sentinelObserved, sentinelQueue,
                         headerSticky>>]_vars
    /\ [][~themeTogglePresent
          => UNCHANGED <<themeListener, stored, dataTheme>>]_vars
    /\ [][~menuTogglePresent
          => UNCHANGED <<menuListener, closeListener, linkListeners,
                         overlayCount, overlayLinks, closeButtons,
                         bodyOpen>>]_vars
    /\ [][~revealPresent
          => UNCHANGED <<revealObserved, revealQueue, revealAnimated>>]_vars
    /\ [][~counterPresent
          => UNCHANGED <<counterObserved, counterQueue, counterText,
                         rafQueue>>]_vars
    /\ [][(variant = "part000" /\ (~trackPresent \/ ~nextPresent \/ ~prevPresent))
          => UNCHANGED <<carouselListeners, trackScrollLeft>>]_vars

\* part_000 has run on a page with a header but no sentinel, a navigation
\* but no open control, a track with one button, and nothing else
C13_Witness ==
    /\ ready /\ ~raised /\ initsCompleted = 6
    /\ variant = "part000"
    /\ headerPresent /\ ~sentinelPresent /\ ~sentinelObserved
    /\ ~themeTogglePresent /\ ~themeListener
    /\ ~menuTogglePresent /\ desktopNavPresent /\ overlayCount = 0
    /\ ~revealPresent /\ ~counterPresent
    /\ trackPresent /\ prevPresent /\ ~nextPresent /\ ~carouselListeners

(* ---- order of the initializers (SpecPermuted) ---- *)

\* what the handler left: observed targets in navigation and overlay, and
\* the number of initializers that returned normally
InitResult == <<observedReveals, observedCounters, initsCompleted>>

\* the same, had the calls been made in the order of the source
SourceResult ==
    <<revealTargets(SourceOrder), counterTargets(SourceOrder),
      initsCompletedAfter(SourceOrder)>>

====
